---- MODULE Spec2Model ----
(***************************************************************************)
(* Model of the ledger core of Money_tracker.py: the transaction list kept *)
(* in st.session_state, the JSON data file, the queries over the list and  *)
(* the three commands (record, delete, settle) of the Streamlit script.    *)
(*                                                                         *)
(* One script run is: load_data() (line 129), then the handler of the      *)
(* widget that triggered the run, then save_data() and st.rerun().         *)
(* pc = "start" is the top of a script run (before load_data), pc =        *)
(* "loaded" is the point after load_data where the widgets are evaluated.  *)
(***************************************************************************)
EXTENDS Integers, Sequences, FiniteSets

(* ------------------------------ bounds -------------------------------- *)

\* Number of clock ticks the model lets pass.  A handler takes a tick, so
\* this also bounds the number of commands and the length of the list.
MaxTick == 3

\* The clock is finer than the '%S' field of the timestamp format.
TicksPerSecond == 2

\* Python floats are binary floating point numbers (53 significant bits);
\* the model keeps the rounding but with Precision significant bits.
Precision == 3

(* --------------------------- float arithmetic -------------------------- *)

Abs(x) == IF x < 0 THEN 0 - x ELSE x

RECURSIVE Pow2(_)
Pow2(n) == IF n = 0 THEN 1 ELSE 2 * Pow2(n - 1)

\* Distance between adjacent floats around magnitude a.
RECURSIVE Ulp(_)
Ulp(a) == IF a < Pow2(Precision) THEN 1 ELSE 2 * Ulp(a \div 2)

\* Round an exact value to the nearest float, ties to even.
Fl(x) ==
    LET a == Abs(x)
        u == Ulp(a)
        q == a \div u
        r == a % u
        m == IF 2 * r > u \/ (2 * r = u /\ q % 2 = 1) THEN q + 1 ELSE q
    IN  IF x < 0 THEN 0 - (m * u) ELSE m * u

FAdd(a, b) == Fl(a + b)

\* sum() of CPython up to 3.11: left-to-right float addition from 0.
RECURSIVE NaiveSum(_)
NaiveSum(s) ==
    IF s = << >> THEN 0
    ELSE FAdd(NaiveSum(SubSeq(s, 1, Len(s) - 1)), s[Len(s)])

\* sum() of CPython from 3.12 on: Neumaier compensated summation; the pair
\* is (running total, compensation).
RECURSIVE NeumaierState(_)
NeumaierState(s) ==
    IF s = << >> THEN <<0, 0>>
    ELSE LET p == NeumaierState(SubSeq(s, 1, Len(s) - 1))
             t == p[1]
             c == p[2]
             x == s[Len(s)]
             n == FAdd(t, x)
         IN  IF Abs(t) >= Abs(x)
             THEN <<n, FAdd(c, FAdd(FAdd(t, 0 - n), x))>>
             ELSE <<n, FAdd(c, FAdd(FAdd(x, 0 - n), t))>>

NeumaierSum(s) ==
    LET p == NeumaierState(s)
    IN  IF p[2] # 0 THEN FAdd(p[1], p[2]) ELSE p[1]

(* ------------------------------- inputs -------------------------------- *)

\* Names typed into "Person Name*"; "" is the empty text input.
Names == {"Aaron", "Alice", "alice"}

\* str.lower on the names above.
Lower(n) ==
    IF n = "Alice" THEN "alice" ELSE IF n = "Aaron" THEN "aaron" ELSE n

\* Python's string order on the lower-cased names.
LowerRank(n) == IF Lower(n) = "aaron" THEN 1 ELSE 2

\* Amounts typed into the number input: floats that use the whole mantissa
\* (as 0.1 or 1.46 do).
AmountLow == Pow2(Precision) - 2
AmountHigh == Pow2(Precision) - 1

\* What is entered besides the name and the date: the transaction type, the
\* amount (0 is below min_value) and the repayment checkbox.
Entries ==
    {[transaction_type |-> "gave", amount |-> AmountLow, is_repayment |-> FALSE],
     [transaction_type |-> "gave", amount |-> AmountHigh, is_repayment |-> FALSE],
     [transaction_type |-> "borrowed", amount |-> AmountLow, is_repayment |-> TRUE],
     [transaction_type |-> "gave", amount |-> 0, is_repayment |-> FALSE]}

\* min_value of the amount input, in units of the smallest amount.
MinValue == 1

\* The clock is scaled down: a day has this many seconds.
SecondsPerDay == 1

(* ------------------------------- state --------------------------------- *)

VARIABLES
    transactions,   \* st.session_state.transactions
    data_file,      \* content of DATA_FILE on disk
    now,            \* the clock read by datetime.now() and date.today()
    pc,             \* position in the script run
    last,           \* what the handler of the current run did
    compensated     \* TRUE iff the interpreter's sum() compensates (>= 3.12)

vars == <<transactions, data_file, now, pc, last, compensated>>

\* datetime.now().strftime('%Y-%m-%d %H:%M:%S'): the clock cut to seconds.
Timestamp(t) == t \div TicksPerSecond

\* date.today().strftime('%Y-%m-%d'): the calendar day of the clock.
Today(t) == Timestamp(t) \div SecondsPerDay

\* No file at DATA_FILE.
Absent == [exists |-> FALSE, complete |-> FALSE, transactions |-> << >>]

\* json.dump({'transactions': txs}, f) written to the end.
JsonDump(txs) == [exists |-> TRUE, complete |-> TRUE, transactions |-> txs]

\* The file after open(DATA_FILE, 'w') truncated it and json.dump did not
\* reach the end: an unterminated JSON document.  json.load rejects it
\* whatever was written, so the written part is not kept.
Truncated == [exists |-> TRUE, complete |-> FALSE, transactions |-> << >>]

NoMessage == [op |-> "none", status |-> "none"]

Message(op, status) == [op |-> op, status |-> status]

(* ------------------------------ queries -------------------------------- *)

\* The builtin sum() over floats, as the interpreter at hand computes it.
PySum(s) == IF compensated THEN NeumaierSum(s) ELSE NaiveSum(s)

AmountsOf(txs) == [i \in 1..Len(txs) |-> txs[i].amount]

PersonMatches(t, person_name) == Lower(t.person) = Lower(person_name)

calculate_person_balance(txs, person_name) ==
    LET person_transactions ==
            SelectSeq(txs, LAMBDA t : PersonMatches(t, person_name))
    IN  [total |-> PySum(AmountsOf(person_transactions)),
         transactions |-> person_transactions]

\* The sidebar's Quick Stats and the Summary Report compute the same three
\* figures: the sum of the positive amounts, the sum of the absolute values
\* of the negative amounts, and a net figure.
GivenAmounts(txs) == AmountsOf(SelectSeq(txs, LAMBDA t : t.amount > 0))

BorrowedAmounts(txs) ==
    LET neg == SelectSeq(txs, LAMBDA t : t.amount < 0)
    IN  [i \in 1..Len(neg) |-> Abs(neg[i].amount)]

total_owed_to_me == PySum(GivenAmounts(transactions))

total_i_owe == PySum(BorrowedAmounts(transactions))

\* Quick Stats: the net figure is the sum of all amounts.
net_balance == PySum(AmountsOf(transactions))

total_given == PySum(GivenAmounts(transactions))

total_borrowed == PySum(BorrowedAmounts(transactions))

\* Summary Report: the net figure is the difference of the two totals.
net_position == FAdd(total_given, 0 - total_borrowed)

\* set([t['person'] for t in transactions])
PersonSet(txs) == {txs[i].person : i \in 1..Len(txs)}

\* sorted(list(set(...)), key=str.lower): the iteration order of a set of
\* strings is not fixed, and the sort keeps it for names with equal keys, so
\* every key-sorted arrangement of the set is a possible result.
get_all_persons(txs) ==
    LET S == PersonSet(txs)
        n == Cardinality(S)
    IN  {r \in [1..n -> S] :
            /\ \A i, j \in 1..n : i # j => r[i] # r[j]
            /\ \A i, j \in 1..n : i < j => LowerRank(r[i]) <= LowerRank(r[j])}

\* len([t for t in transactions if t['person'] == p])
ExactCount(txs, p) == Cardinality({i \in 1..Len(txs) : txs[i].person = p})

\* max(persons, key=...) returns the first element with the largest key.
FirstMax(txs, persons) ==
    LET best == CHOOSE i \in 1..Len(persons) :
                    /\ \A j \in 1..Len(persons) :
                           ExactCount(txs, persons[j]) <= ExactCount(txs, persons[i])
                    /\ \A j \in 1..(i - 1) :
                           ExactCount(txs, persons[j]) < ExactCount(txs, persons[i])
    IN  persons[best]

\* The values most_active can take for a non-empty list.
most_active(txs) == {FirstMax(txs, r) : r \in get_all_persons(txs)}

(* --------------------------- store operations -------------------------- *)

\* list.remove(x): drops the first element equal to x.  The handler takes x
\* from the list itself, so there is one (without one, remove raises).
RECURSIVE ListRemove(_, _)
ListRemove(txs, x) ==
    IF txs = << >> THEN << >>
    ELSE IF Head(txs) = x THEN Tail(txs)
    ELSE <<Head(txs)>> \o ListRemove(Tail(txs), x)

\* The loop of the "All Transactions" delete button: pops the first
\* transaction whose timestamp equals the row's, then breaks.
RECURSIVE PopFirstWithTimestamp(_, _)
PopFirstWithTimestamp(txs, ts) ==
    IF txs = << >> THEN << >>
    ELSE IF Head(txs).timestamp = ts THEN Tail(txs)
    ELSE <<Head(txs)>> \o PopFirstWithTimestamp(Tail(txs), ts)

\* What save_data() can do to the file: write it all, fail in open() before
\* the file is touched, or stop after open() truncated it.
SaveOutcomes == {"ok", "open_error", "write_error"}

save_data_unwritten(txs, old, o) == old

save_data(txs, old, o) ==
    IF o = "ok" THEN JsonDump(txs)
    ELSE IF o = "open_error" THEN old
    ELSE Truncated

SaveStatus(o) == IF o = "ok" THEN "success" ELSE "exception"

(* ------------------------------- actions ------------------------------- *)

Init ==
    /\ transactions = << >>
    /\ data_file = Absent
    /\ now = 0
    /\ pc = "start"
    /\ last = NoMessage
    /\ compensated \in BOOLEAN

\* load_data reading a key that save_data never writes.
load_data_wrong_key ==
    /\ pc = "start"
    /\ transactions' = IF data_file.exists /\ data_file.complete
                       THEN << >>
                       ELSE transactions
    /\ pc' = "loaded"
    /\ last' = NoMessage
    /\ UNCHANGED <<data_file, now, compensated>>

\* load_data() at the top of every script run: a missing file and a file
\* that does not parse both leave the session's list as it is.
load_data ==
    /\ pc = "start"
    /\ transactions' =
           IF data_file.exists /\ data_file.complete
           THEN data_file.transactions
           ELSE transactions
    /\ pc' = "loaded"
    /\ last' = NoMessage
    /\ UNCHANGED <<data_file, now, compensated>>

\* A new browser session or a restarted process: session state starts empty.
NewSession ==
    /\ transactions' = << >>
    /\ pc' = "start"
    /\ last' = NoMessage
    /\ UNCHANGED <<data_file, now, compensated>>

Tick ==
    /\ now < MaxTick
    /\ now' = now + 1
    /\ UNCHANGED <<transactions, data_file, pc, last, compensated>>

\* A handler runs for some time: the clock has moved when it returns.
Elapse ==
    /\ now < MaxTick
    /\ now' = now + 1
    /\ UNCHANGED compensated

\* The number and date inputs keep values outside min_value / max_value out
\* of the form.
WidgetsAccept(amount, transaction_date) ==
    /\ amount >= MinValue
    /\ transaction_date <= Today(now)

FormValid_amount_only(person_name, amount) == amount > 0

\* The guard of the submit handler.
FormValid(person_name, amount) == person_name # "" /\ amount > 0

NewTransaction(person_name, transaction_type, amount, transaction_date, is_repayment) ==
    [person |-> person_name,
     amount |-> IF transaction_type = "gave" THEN amount ELSE 0 - amount,
     date |-> transaction_date,
     purpose |-> "",
     is_repayment |-> is_repayment,
     timestamp |-> Timestamp(now)]

\* "Add Transaction" submitted.
Record(person_name, transaction_type, amount, transaction_date, is_repayment) ==
    /\ pc = "loaded"
    /\ pc' = "start"
    /\ Elapse
    /\ IF ~WidgetsAccept(amount, transaction_date)
       THEN /\ last' = Message("record", "rejected")
            /\ UNCHANGED <<transactions, data_file>>
       ELSE IF ~FormValid(person_name, amount)
       THEN /\ last' = Message("record", "error")
            /\ UNCHANGED <<transactions, data_file>>
       ELSE /\ transactions' = Append(transactions,
                   NewTransaction(person_name, transaction_type, amount,
                                  transaction_date, is_repayment))
            /\ \E o \in SaveOutcomes :
                   /\ data_file' = save_data(transactions', data_file, o)
                   /\ last' = Message("record", SaveStatus(o))

\* A settlement that repeats the balance instead of offsetting it.
Settlement_same_sign(person, balance) ==
    [person |-> person,
     amount |-> balance,
     date |-> Today(now),
     purpose |-> "Full settlement",
     is_repayment |-> TRUE,
     timestamp |-> Timestamp(now)]

Settlement(person, balance) ==
    [person |-> person,
     amount |-> 0 - balance,
     date |-> Today(now),
     purpose |-> "Full settlement",
     is_repayment |-> TRUE,
     timestamp |-> Timestamp(now)]

SettleOffered_always(balance) == TRUE

\* The "Mark as Settled" button exists only while the balance is not 0.
SettleOffered(balance) == balance # 0

\* "Mark as Settled" for a listed person.
Settle(person) ==
    /\ pc = "loaded"
    /\ person \in PersonSet(transactions)
    /\ pc' = "start"
    /\ Elapse
    /\ LET balance == calculate_person_balance(transactions, person).total
       IN  IF SettleOffered(balance)
           THEN /\ transactions' = Append(transactions, Settlement(person, balance))
                /\ \E o \in SaveOutcomes :
                       /\ data_file' = save_data(transactions', data_file, o)
                       /\ last' = Message("settle", SaveStatus(o))
           ELSE /\ last' = Message("settle", "noop")
                /\ UNCHANGED <<transactions, data_file>>

\* The delete button of a row in a person's card ("By Person" tab).  The
\* rows are the person's transactions sorted by date; which rows there are
\* does not depend on that order.
DeletePersonRow(person, idx) ==
    /\ pc = "loaded"
    /\ person \in PersonSet(transactions)
    /\ LET rows == calculate_person_balance(transactions, person).transactions
       IN  /\ idx \in 1..Len(rows)
           /\ transactions' = ListRemove(transactions, rows[idx])
           /\ \E o \in SaveOutcomes :
                  /\ data_file' = save_data(transactions', data_file, o)
                  /\ last' = Message("delete_person_row", SaveStatus(o))
    /\ pc' = "start"
    /\ Elapse

\* The delete button of a row of the "All Transactions" tab.
DeleteRow(idx) ==
    /\ pc = "loaded"
    /\ idx \in 1..Len(transactions)
    /\ LET row == transactions[idx]
       IN  /\ transactions' = PopFirstWithTimestamp(transactions, row.timestamp)
           /\ \E o \in SaveOutcomes :
                  /\ data_file' = save_data(transactions', data_file, o)
                  /\ last' = Message("delete", SaveStatus(o))
    /\ pc' = "start"
    /\ Elapse

Next ==
    \/ load_data
    \/ NewSession
    \/ Tick
    \/ \E person_name \in Names \cup {""}, e \in Entries,
          transaction_date \in 0..(Today(now) + 1) :
          Record(person_name, e.transaction_type, e.amount, transaction_date,
                 e.is_repayment)
    \/ \E person \in Names : Settle(person)
    \/ \E person \in Names, idx \in 1..Len(transactions) : DeletePersonRow(person, idx)
    \/ \E idx \in 1..Len(transactions) : DeleteRow(idx)

Spec == Init /\ [][Next]_vars

(* ------------------------------- claims -------------------------------- *)

\* A step of a handler: from the evaluated widgets to the end of the run.
HandlerStep == pc = "loaded" /\ pc' = "start"

Balance(txs, p) == calculate_person_balance(txs, p).total

\* The list in every order.
Reorderings(txs) ==
    {[i \in 1..Len(txs) |-> txs[f[i]]] :
        f \in {g \in [1..Len(txs) -> 1..Len(txs)] :
                 \A i, j \in 1..Len(txs) : i # j => g[i] # g[j]}}

\* C1: after "Mark as Settled" for a person the balance of that person is 0,
\* and for a person whose balance is 0 already the list is left unchanged.
SettlementCorrect ==
    [][(HandlerStep /\ last'.op = "settle") =>
         IF last'.status = "noop"
         THEN transactions' = transactions
         ELSE Balance(transactions', transactions'[Len(transactions')].person) = 0]_vars

\* C2: the person list has every person once under case-insensitive
\* comparison, sorted by the lower-cased name.
ListPersonsDistinct ==
    \A r \in get_all_persons(transactions) :
        /\ \A i, j \in 1..Len(r) : i # j => Lower(r[i]) # Lower(r[j])
        /\ \A i, j \in 1..Len(r) : i < j => LowerRank(r[i]) <= LowerRank(r[j])

\* C3: no two transactions of the list have the same timestamp.
TimestampsUnique ==
    \A i, j \in 1..Len(transactions) :
        i # j => transactions[i].timestamp # transactions[j].timestamp

\* C4: deleting by timestamp twice gives the same list as deleting once, and
\* deleting a timestamp no transaction has leaves the list as it is.
DeleteIdempotent ==
    \A ts \in 0..(Timestamp(MaxTick) + 1) :
        /\ PopFirstWithTimestamp(PopFirstWithTimestamp(transactions, ts), ts)
               = PopFirstWithTimestamp(transactions, ts)
        /\ (\A i \in 1..Len(transactions) : transactions[i].timestamp # ts)
               => PopFirstWithTimestamp(transactions, ts) = transactions

\* C5: when a command has returned successfully the file holds exactly the
\* list in memory.
PersistedAfterCommand ==
    (pc = "start" /\ last.status = "success")
        => data_file = JsonDump(transactions)

PersistedAfterCommandWitness ==
    /\ pc = "start"
    /\ last = Message("delete", "success")
    /\ Len(transactions) >= 1

\* C6: the file is never seen partly written: it is absent or holds a
\* complete document.
PersistAtomic == data_file.exists => data_file.complete

\* C7: a submitted form with an empty person, a zero amount or a date after
\* today is refused and changes neither the list nor the file.
InvalidRecordRefused ==
    [][\A person_name \in Names \cup {""}, e \in Entries,
          transaction_date \in 0..(Today(now) + 1) :
          (/\ Record(person_name, e.transaction_type, e.amount,
                     transaction_date, e.is_repayment)
           /\ (person_name = "" \/ e.amount = 0 \/ transaction_date > Today(now)))
          => /\ last'.status \in {"error", "rejected"}
             /\ transactions' = transactions
             /\ data_file' = data_file]_vars

InvalidRecordRefusedWitness ==
    /\ pc = "start"
    /\ last = Message("record", "error")
    /\ Len(transactions) >= 1

\* C8: no transaction in the list or in the file has amount 0.
AmountsNonZero ==
    /\ \A i \in 1..Len(transactions) : transactions[i].amount # 0
    /\ \A i \in 1..Len(data_file.transactions) :
           data_file.transactions[i].amount # 0

AmountsNonZeroWitness ==
    /\ Len(transactions) >= 2
    /\ transactions[Len(transactions)].purpose = "Full settlement"
    /\ transactions[1].purpose = ""
    /\ data_file = JsonDump(transactions)

\* The list with the repayment flag of transaction k inverted.
FlipRepayment(txs, k) ==
    [i \in 1..Len(txs) |->
        IF i = k THEN [txs[i] EXCEPT !.is_repayment = ~txs[i].is_repayment]
        ELSE txs[i]]

\* C9: the balance of a person is the sum over exactly the transactions of
\* that person (compared case-insensitively), is the same for every order
\* of the list and does not depend on the repayment flags.
BalanceOrderIndependent ==
    \A p \in Names :
        LET b == calculate_person_balance(transactions, p)
        IN  /\ b.transactions =
                   SelectSeq(transactions, LAMBDA t : Lower(t.person) = Lower(p))
            /\ \A q \in Reorderings(transactions) : Balance(q, p) = b.total
            /\ \A k \in 1..Len(transactions) :
                   Balance(FlipRepayment(transactions, k), p) = b.total

\* Number of transactions of the person with lower-cased name k.
GroupCount(txs, k) ==
    Cardinality({i \in 1..Len(txs) : Lower(txs[i].person) = k})

\* C10: the most active person is the one with the most transactions,
\* counted case-insensitively, the alphabetically first such person on a
\* tie, and is a single value for a given list.
MostActiveIsMaxCount ==
    transactions # << >> =>
        /\ Cardinality(most_active(transactions)) = 1
        /\ \A m \in most_active(transactions) :
               \A p \in PersonSet(transactions) :
                   \/ GroupCount(transactions, Lower(p))
                          < GroupCount(transactions, Lower(m))
                   \/ /\ GroupCount(transactions, Lower(p))
                             = GroupCount(transactions, Lower(m))
                      /\ LowerRank(m) <= LowerRank(p)

\* The step of load_data at the top of a script run.
LoadStep == pc = "start" /\ pc' = "loaded"

\* C11: a load from a missing or unreadable file gives the empty list,
\* whatever the list in memory was before.
LoadOfUnreadableIsEmpty ==
    [][(LoadStep /\ ~(data_file.exists /\ data_file.complete))
          => transactions' = << >>]_vars

NetComputationsAgree ==
    /\ net_position = FAdd(total_owed_to_me, 0 - total_i_owe)
    /\ net_position = net_balance

\* C14: settling a person whose balance b is not 0 appends one transaction
\* for that person, of amount -b, dated today, with purpose "Full settlement"
\* and marked as a repayment; what was in the list before stays, in order.
SettleAppendsOne ==
    [][\A p \in Names :
          (Settle(p) /\ Balance(transactions, p) # 0) =>
              LET n == Len(transactions)
              IN  /\ Len(transactions') = n + 1
                  /\ SubSeq(transactions', 1, n) = transactions
                  /\ transactions'[n + 1].person = p
                  /\ transactions'[n + 1].amount = 0 - Balance(transactions, p)
                  /\ transactions'[n + 1].date = Today(now)
                  /\ transactions'[n + 1].purpose = "Full settlement"
                  /\ transactions'[n + 1].is_repayment = TRUE]_vars

SettleAppendsOneWitness ==
    /\ pc = "start"
    /\ last.op = "settle"
    /\ last.status # "noop"
    /\ Len(transactions) >= 2
    /\ transactions[Len(transactions)].purpose = "Full settlement"
    /\ transactions[Len(transactions)].amount # 0

\* The list without its element at position i.
RemoveAt(txs, i) == SubSeq(txs, 1, i - 1) \o SubSeq(txs, i + 1, Len(txs))

\* C15: the delete button of a displayed row removes the transaction of
\* that row and no other, also when transactions share a timestamp or are
\* equal field by field.
DeleteRemovesClickedRow ==
    [][/\ \A idx \in 1..Len(transactions) :
              DeleteRow(idx) => transactions' = RemoveAt(transactions, idx)
       /\ \A p \in Names :
              \A idx \in 1..Len(transactions) :
                  DeletePersonRow(p, idx) =>
                      \E i \in 1..Len(transactions) :
                          /\ transactions[i] =
                               calculate_person_balance(transactions, p).transactions[idx]
                          /\ transactions' = RemoveAt(transactions, i)]_vars

\* The positions of the transactions counted for a person.
MatchedPositions(txs, p) == {i \in 1..Len(txs) : PersonMatches(txs[i], p)}

\* C16: the balances of the listed persons add up to the net position, and
\* the transactions counted for two different listed persons are disjoint
\* and together are the whole list.
BalancesPartitionLedger ==
    \A r \in get_all_persons(transactions) :
        /\ PySum([i \in 1..Len(r) |-> Balance(transactions, r[i])]) = net_balance
        /\ \A i, j \in 1..Len(r) :
               i # j => MatchedPositions(transactions, r[i])
                          \cap MatchedPositions(transactions, r[j]) = {}
        /\ UNION {MatchedPositions(transactions, r[i]) : i \in 1..Len(r)}
             = 1..Len(transactions)

====
